---- MODULE Spec2Model ----
(***************************************************************************)
(* Model of svn-git-convert: the CacheManager of src/cache_manager.py and  *)
(* the SVNToGitMigrator of src/svn_to_git_migrator.py.                     *)
(*                                                                         *)
(* Spec     : a CacheManager object driven by cached_run calls and process *)
(*            restarts, over the files of its cache directory.             *)
(***************************************************************************)
EXTENDS Integers, Sequences, FiniteSets, TLC

(***************************************************************************)
(* Bounds of the model.                                                    *)
(***************************************************************************)
\* number of distinct 8-character keys random.choices can produce
NumKeys == 2
\* number of operations (cached_run calls and restarts) of one behaviour
MaxCalls == 3
\* revisions of the svn repository, commits of the git repository
MaxRevs == 2
MaxCommits == 3
\* characters of a message body
MaxMsgLen == 4
\* segments of a path after its root
MaxSegments == 4
\* the most batches get_svn_revisions queries
MaxBatches == 2

(***************************************************************************)
(* Options: None is the empty set, Some(x) the singleton.                  *)
(***************************************************************************)
None == {}
Some(x) == {x}
The(s) == CHOOSE x \in s : TRUE

Range(f) == {f[i] : i \in DOMAIN f}
Restrict(f, S) == [x \in S |-> f[x]]

(***************************************************************************)
(* Files.  A file name is <<stem, extension>>; a cache key is a stem.      *)
(***************************************************************************)
KeyNames == <<"aaaaaaa1", "aaaaaaa2", "aaaaaaa3", "aaaaaaa4",
              "aaaaaaa5", "aaaaaaa6", "aaaaaaa7", "aaaaaaa8">>
Keys == {KeyNames[i] : i \in 1..NumKeys}

\* the key _get_cache_key returns for a command that is not cacheable
NoneKey == "None"

\* cache_key_filename, the index file __init__ loads and saves
cache_key_filename == <<"_cache_keys", ".json">>
\* the file _get_cache_key saves the index to
cache_keys_json == <<"cache_keys", ".json">>
\* f"{key}.json"
KeyFile(key) == <<key, ".json">>
\* the file whose name is the key itself
KeyAsFileName(key) == <<key, "">>
EndsWithJson(file) == file[2] = ".json"

\* The directory self.cache_dir names (beside the module) and the directory
\* the relative path cache_dir names when the process runs elsewhere.
ModuleDir == "module_dir/.svn_git_cache"
OtherDir == "other_cwd/.svn_git_cache"
Dirs == {ModuleDir, OtherDir}

(***************************************************************************)
(* Commands (lists of tokens) and the results of running them.             *)
(***************************************************************************)
InfoCmd == <<"svn", "info", "--show-item", "revision", "url">>
DiffCmd == <<"diff", "svn_repo/trunk/a.txt", "git_repo/a.txt">>
CheckoutCmd == <<"svn", "checkout", "url", "svn_repo">>
CloneCmd == <<"git", "-C", "git_repo", "svn", "clone", "url", "--stdlayout", ".">>
SwitchCmd == <<"git", "-C", "git_repo", "switch", "--detach", "c1">>
Cmds == {InfoCmd, DiffCmd, CheckoutCmd, CloneCmd, SwitchCmd}

Result(rc, out, err) == [returncode |-> rc, stdout |-> out, stderr |-> err]
\* what the external tools may answer
ProviderResults == {Result(0, "out", ""), Result(1, "", "err")}
\* the content of a result file left in the directory by somebody else
StaleResult == Result(0, "stale", "")
\* the content of a result file that is not a JSON document
Undecodable == [undecodable |-> TRUE]

(***************************************************************************)
(* The dict cache_keys: a sequence of entries in insertion order.          *)
(***************************************************************************)
Entry(k, c) == [key |-> k, cmd |-> c]
DictKeys(d) == {d[i].key : i \in DOMAIN d}
DictSet(d, k, c) ==
    IF k \in DictKeys(d)
    THEN [i \in DOMAIN d |-> IF d[i].key = k THEN Entry(k, c) ELSE d[i]]
    ELSE Append(d, Entry(k, c))

VARIABLES
    cache_keys,   \* self.cache_keys of the running process
    disk,         \* existing directory -> (existing file name -> content)
    cwd,          \* the directory the relative path cache_dir names
    call,         \* the last operation and what it did
    stored,       \* command -> result a cached_run stored for it on this object
    carried,      \* command -> result stored in the same directory before the restart
    ledger,       \* what the operations so far did with keys and result files
    ncalls        \* operations so far


(***************************************************************************)
(* CacheManager.__init__                                                   *)
(***************************************************************************)
makedirs(d, dir) == IF dir \in DOMAIN d THEN d ELSE (dir :> <<>>) @@ d

CacheManagerInit(d, dir) ==
    LET d1 == makedirs(d, dir)
        loaded == IF cache_key_filename \in DOMAIN d1[dir]
                  THEN d1[dir][cache_key_filename] ELSE <<>>
        \* "file not in self.cache_keys": the file name against the keys
        removed == {file \in DOMAIN d1[dir] :
                       EndsWithJson(file)
                       /\ file \notin {KeyAsFileName(k) : k \in DictKeys(loaded)}}
        files2 == Restrict(d1[dir], DOMAIN d1[dir] \ removed)
        \* "key not in os.listdir(cache_dir)"
        kept == SelectSeq(loaded, LAMBDA e : KeyAsFileName(e.key) \in DOMAIN files2)
        files3 == (cache_key_filename :> kept) @@ files2
    IN [cache_keys |-> kept, disk |-> [d1 EXCEPT ![dir] = files3]]

(***************************************************************************)
(* CacheManager.cleanup                                                    *)
(***************************************************************************)
cleanup(d) ==
    IF ModuleDir \notin DOMAIN d
    THEN [raised |-> "FileNotFoundError", disk |-> d]
    ELSE [raised |-> "",
          disk |-> [d EXCEPT ![ModuleDir] =
                      Restrict(@, {file \in DOMAIN @ : ~ EndsWithJson(file)})]]

(***************************************************************************)
(* CacheManager.is_cacheable_cmd, _get_cache_key, _get_cached_result,      *)
(* cache_result, cached_run                                                *)
(***************************************************************************)
\* mutant: 'switch' is missing from the list
is_cacheable_cmd_without_switch(cmd) ==
    ~ \E arg \in {"checkout", "clone"} : arg \in Range(cmd)

is_cacheable_cmd(cmd) ==
    ~ \E arg \in {"checkout", "clone", "switch"} : arg \in Range(cmd)

\* The first key of the index whose entry is the command.
FirstMatch(ck, cmd) ==
    LET hits == {i \in DOMAIN ck : ck[i].cmd = cmd}
    IN IF hits = {} THEN None
       ELSE Some(ck[CHOOSE i \in hits : \A j \in hits : i <= j].key)

get_cache_key(ck, d, cmd, newKey) ==
    IF ~ is_cacheable_cmd(cmd)
    THEN [raised |-> "", key |-> NoneKey, cache_keys |-> ck, disk |-> d]
    ELSE IF FirstMatch(ck, cmd) # None
    THEN [raised |-> "", key |-> The(FirstMatch(ck, cmd)), cache_keys |-> ck, disk |-> d]
    ELSE IF Len(ck) = 0
    \* line 71 reads the loop variable of a loop that never ran
    THEN [raised |-> "UnboundLocalError", key |-> NoneKey, cache_keys |-> ck, disk |-> d]
    ELSE LET ck2 == DictSet(ck, newKey, cmd)
         IN IF ModuleDir \notin DOMAIN d
            THEN [raised |-> "FileNotFoundError", key |-> NoneKey,
                  cache_keys |-> ck2, disk |-> d]
            ELSE [raised |-> "", key |-> newKey, cache_keys |-> ck2,
                  disk |-> [d EXCEPT ![ModuleDir] = (cache_keys_json :> ck2) @@ @]]

get_cached_result(d, key) ==
    IF ModuleDir \in DOMAIN d /\ KeyFile(key) \in DOMAIN d[ModuleDir]
    THEN Some(d[ModuleDir][KeyFile(key)])
    ELSE None

\* json.load(f), line 97: what it raises for the file of the key
json_load_raises(d, key) ==
    IF get_cached_result(d, key) = Some(Undecodable) THEN "JSONDecodeError" ELSE ""

cache_result(d, key, result) ==
    IF ModuleDir \notin DOMAIN d
    THEN [raised |-> "FileNotFoundError", disk |-> d]
    ELSE [raised |-> "", disk |-> [d EXCEPT ![ModuleDir] = (KeyFile(key) :> result) @@ @]]

\* mutant: check is ignored
cached_run_return_lenient(ck, d, result, check, executed, wrote) ==
    [raised |-> "", stderr |-> None,
     result |-> Some(result), executed |-> executed, wrote |-> wrote,
     cache_keys |-> ck, disk |-> d]

\* lines 135-139; stderr: the stderr the CalledProcessError carries
cached_run_return(ck, d, result, check, executed, wrote) ==
    [raised |-> IF check /\ result.returncode # 0 THEN "CalledProcessError" ELSE "",
     stderr |-> IF check /\ result.returncode # 0 THEN Some(result.stderr) ELSE None,
     result |-> Some(result), executed |-> executed, wrote |-> wrote,
     cache_keys |-> ck, disk |-> d]

\* lines 128-133, cr: what cache_result did
cached_run_stored(gk, cr, check, ran) ==
    IF cr.raised # ""
    THEN [raised |-> cr.raised, stderr |-> None, result |-> None, executed |-> TRUE,
          wrote |-> FALSE, cache_keys |-> gk.cache_keys, disk |-> cr.disk]
    ELSE cached_run_return(gk.cache_keys, cr.disk, ran, check, TRUE, TRUE)

\* lines 115-133, cached_result: what _get_cached_result found
cached_run_looked_up(gk, cached_result, cmd, check, ran) ==
    IF is_cacheable_cmd(cmd) /\ cached_result # None
    THEN cached_run_return(gk.cache_keys, gk.disk, The(cached_result), check, FALSE, FALSE)
    ELSE IF gk.key # NoneKey
    THEN cached_run_stored(gk, cache_result(gk.disk, gk.key, ran), check, ran)
    ELSE cached_run_return(gk.cache_keys, gk.disk, ran, check, TRUE, FALSE)

\* lines 110-111, gk: what _get_cache_key did
cached_run_keyed(gk, cmd, check, ran) ==
    IF gk.raised # ""
    THEN [raised |-> gk.raised, stderr |-> None, result |-> None, executed |-> FALSE,
          wrote |-> FALSE, cache_keys |-> gk.cache_keys, disk |-> gk.disk]
    ELSE IF json_load_raises(gk.disk, gk.key) # ""
    THEN [raised |-> json_load_raises(gk.disk, gk.key), stderr |-> None, result |-> None,
          executed |-> FALSE, wrote |-> FALSE, cache_keys |-> gk.cache_keys,
          disk |-> gk.disk]
    ELSE cached_run_looked_up(gk, get_cached_result(gk.disk, gk.key), cmd, check, ran)

\* ran is what subprocess.run answers if the command is executed.
cached_run(ck, d, cmd, check, newKey, ran) ==
    cached_run_keyed(get_cache_key(ck, d, cmd, newKey), cmd, check, ran)

(***************************************************************************)
(* Text.  A message is a sequence of characters; "git-svn-id: " and the    *)
(* two messages the code names are single elements of it.  A path is the   *)
(* sequence path.split("/") gives.                                         *)
(***************************************************************************)
Marker == "git-svn-id: "
CreateInitialStructure == "Create initial structure"
CreatingStandardLayout == "Creating standard repository layout"
Whitespace == {" ", "\n", "\t"}

RECURSIVE lstrip(_)
lstrip(s) == IF s # <<>> /\ Head(s) \in Whitespace THEN lstrip(Tail(s)) ELSE s
RECURSIVE rstrip(_)
rstrip(s) ==
    IF s # <<>> /\ s[Len(s)] \in Whitespace THEN rstrip(SubSeq(s, 1, Len(s) - 1)) ELSE s
\* str.strip()
strip(s) == rstrip(lstrip(s))

\* the least index of element t in s, 0 if there is none
FirstIndex(s, t) ==
    IF \E i \in DOMAIN s : s[i] = t
    THEN CHOOSE i \in DOMAIN s : s[i] = t /\ \A j \in 1..(i - 1) : s[j] # t
    ELSE 0
\* message.split("git-svn-id: ", 1)
split_marker(message) ==
    LET i == FirstIndex(message, Marker)
    IN IF i = 0 THEN <<message>>
       ELSE <<SubSeq(message, 1, i - 1), SubSeq(message, i + 1, Len(message))>>
\* line.split(" ")[0]
first_token(line) ==
    LET i == FirstIndex(line, " ")
    IN IF i = 0 THEN line ELSE SubSeq(line, 1, i - 1)
RECURSIVE Join(_)
Join(s) == IF s = <<>> THEN "" ELSE Head(s) \o Join(Tail(s))
\* "/".join(parts)
RECURSIVE JoinPath(_)
JoinPath(parts) ==
    IF parts = <<>> THEN ""
    ELSE IF Len(parts) = 1 THEN parts[1]
    ELSE parts[1] \o "/" \o JoinPath(Tail(parts))

(***************************************************************************)
(* _get_revision_info_for_logentry, _get_commit_info_for_logentry          *)
(***************************************************************************)
PathInfo(action, path, kind) == [action |-> action, path |-> path, kind |-> kind]
\* the keys of a PathInfo dict, in the order line 78 gives them
PathInfoKeys == <<"action", "path", "kind">>

\* mutant: the message of the revision is kept as the log gives it
get_revision_info_untrimmed(logentry) ==
    [revision |-> logentry.revision,
     message |-> logentry.msg,
     changed_paths |-> logentry.paths]

\* logentry: [revision, msg, paths]
get_revision_info_for_logentry(logentry) ==
    [revision |-> logentry.revision,
     message |-> strip(logentry.msg),
     changed_paths |-> logentry.paths]

\* logentry: [hash, message]
get_commit_info_for_logentry(logentry) ==
    LET msg_split == split_marker(logentry.message)
        message == strip(msg_split[1])
        revision == IF Len(msg_split) > 1
                    THEN Some(Join(first_token(strip(msg_split[2]))))
                    ELSE None
    IN [commit_hash |-> logentry.hash,
        revision |-> revision,
        message |-> strip(IF message = <<CreateInitialStructure>>
                          THEN <<CreatingStandardLayout>> ELSE message),
        changed_paths |-> <<>>]

(***************************************************************************)
(* The commands of the migrator and the answers of the tools.              *)
(***************************************************************************)
svn_repo_url == "url"
svn_repo_path == "svn_repo"
git_repo_path == "git_repo"
git_cmd_prefix == <<"git", "-C", git_repo_path>>

last_rev_cmd == <<"svn", "info", "--show-item", "revision", svn_repo_url>>
LogCmd(rev_start, rev_end) ==
    <<"svn", "log", "--xml", "--verbose", "-r",
      ToString(rev_start) \o ":" \o ToString(rev_end), svn_repo_url>>
GitLogCmd == git_cmd_prefix \o <<"log", "--all", "--pretty=format:<commit>...</commit>">>
DiffOf(source, target) == <<"diff", source, target>>
CloneSvnCmd == <<"svn", "checkout", svn_repo_url, svn_repo_path>>
CloneGitCmd == git_cmd_prefix \o <<"svn", "clone", svn_repo_url, "--stdlayout", ".">>
CheckoutAt(rev_num) == <<"svn", "checkout", svn_repo_url \o "@" \o rev_num, svn_repo_path>>
SwitchTo(commit_hash) == git_cmd_prefix \o <<"switch", "--detach", commit_hash>>

\* stdout of a tool: a number, an svn XML log, a git log, or plain text
OutInt(n) == [kind |-> "int", n |-> n, entries |-> <<>>]
OutSvnXml(entries) == [kind |-> "svnxml", n |-> 0, entries |-> entries]
OutGitXml(entries) == [kind |-> "gitxml", n |-> 0, entries |-> entries]
OutText(lines) == [kind |-> "text", n |-> 0, entries |-> lines]
Failed == Result(1, OutText(<<>>), "err")

\* The world the tools look at: w.lastRev is the youngest revision of the
\* svn repository, w.svnLog[r] its log entry of revision r, w.svnTree[r] its
\* files at revision r (path -> content), w.gitLog the log entries of the git
\* repository in the order git log prints them, w.gitTree[h] its files at
\* commit h.  wc.svn and wc.git are the units the two working copies reflect
\* (None: no working copy yet).
Head_ == "HEAD"
SvnTreeAt(w, unit) == w.svnTree[IF unit = Head_ THEN ToString(w.lastRev) ELSE unit]
GitTreeAt(w, unit) == w.gitTree[IF unit = Head_ THEN w.gitLog[1].hash ELSE unit]
\* the content of the file a diff argument names, if it exists
ReadSvnFile(w, wc, file) ==
    IF wc.svn = None THEN None
    ELSE LET tree == SvnTreeAt(w, The(wc.svn))
             hits == {p \in DOMAIN tree : svn_repo_path \o p = file}
         IN IF hits = {} THEN None ELSE Some(tree[The(hits)])
ReadGitFile(w, wc, file) ==
    IF wc.git = None \/ (The(wc.git) = Head_ /\ w.gitLog = <<>>) THEN None
    ELSE LET tree == GitTreeAt(w, The(wc.git))
             hits == {p \in DOMAIN tree : git_repo_path \o p = file}
         IN IF hits = {} THEN None ELSE Some(tree[The(hits)])

IsLogCmd(cmd) == Len(cmd) = 7 /\ cmd[2] = "log" /\ cmd[1] = "svn"
\* the revisions and the commits a checkout or a switch can name
SvnUnits(w) == {ToString(i) : i \in 1..w.lastRev}
GitUnits(w) == {w.gitLog[i].hash : i \in DOMAIN w.gitLog}
IsCheckoutAt(w, cmd) == \E u \in SvnUnits(w) : cmd = CheckoutAt(u)
IsSwitchTo(w, cmd) == \E h \in GitUnits(w) : cmd = SwitchTo(h)
LogRange(w, cmd) ==
    CHOOSE ab \in (1..w.lastRev) \X (1..w.lastRev) : cmd = LogCmd(ab[1], ab[2])

\* subprocess.run(cmd): ok says whether the tool succeeds
Provider(w, wc, cmd, ok) ==
    IF ~ ok THEN Failed
    ELSE IF cmd = last_rev_cmd THEN Result(0, OutInt(w.lastRev), "")
    ELSE IF IsLogCmd(cmd)
    THEN LET ab == LogRange(w, cmd)
         IN Result(0, OutSvnXml([i \in 1..(ab[2] - ab[1] + 1) |-> w.svnLog[ab[1] + i - 1]]), "")
    ELSE IF cmd = GitLogCmd THEN Result(0, OutGitXml(w.gitLog), "")
    ELSE IF cmd[1] = "diff"
    THEN LET a == ReadSvnFile(w, wc, cmd[2])
             b == ReadGitFile(w, wc, cmd[3])
         IN IF a = None \/ b = None THEN Result(2, OutText(<<>>), "No such file or directory")
            ELSE IF a = b THEN Result(0, OutText(<<>>), "")
            ELSE Result(1, OutText(<<The(a), The(b)>>), "")
    ELSE IF cmd \in {CloneSvnCmd, CloneGitCmd} \/ IsCheckoutAt(w, cmd) \/ IsSwitchTo(w, cmd)
    THEN Result(0, OutText(<<>>), "")
    ELSE Failed

\* what running a checkout, clone or switch does to the working copies
Effect(w, wc, cmd, ok) ==
    IF ~ ok THEN wc
    ELSE IF cmd = CloneSvnCmd THEN [wc EXCEPT !.svn = Some(Head_)]
    ELSE IF cmd = CloneGitCmd THEN [wc EXCEPT !.git = Some(Head_)]
    ELSE IF IsCheckoutAt(w, cmd)
    THEN [wc EXCEPT !.svn = Some(The({u \in SvnUnits(w) : cmd = CheckoutAt(u)}))]
    ELSE IF IsSwitchTo(w, cmd)
    THEN [wc EXCEPT !.git = Some(The({h \in GitUnits(w) : cmd = SwitchTo(h)}))]
    ELSE wc

\* self.cache_manager.cached_run(cmd, check=check) in the world w.
\* st: [cache_keys, disk, wc]; env.newKey: the key random.choices draws;
\* ok: whether the tool succeeds.
run_done(st, w, cmd, ok, r) ==
    [raised |-> r.raised, result |-> r.result, executed |-> r.executed,
     st |-> [cache_keys |-> r.cache_keys, disk |-> r.disk,
             wc |-> IF r.executed THEN Effect(w, st.wc, cmd, ok) ELSE st.wc]]
run(st, w, cmd, check, newKey, ok) ==
    run_done(st, w, cmd, ok,
             cached_run(st.cache_keys, st.disk, cmd, check, newKey,
                        Provider(w, st.wc, cmd, ok)))

(***************************************************************************)
(* SVNToGitMigrator: file verification                                     *)
(***************************************************************************)
\* lines 270-277, r: what cached_run did
verify_file_content_of(r) ==
    [raised |-> r.raised, st |-> r.st,
     value |-> r.raised = "" /\ The(r.result).returncode = 0]
verify_file_content(st, w, source, target, env) ==
    verify_file_content_of(run(st, w, DiffOf(source, target), FALSE, env.newKey, env.okDiff))

\* lines 424-438, sw: what the switch did
verify_single_file_switched(sw, w, svn_file_path, git_file_path, env) ==
    IF sw.raised # "" THEN [raised |-> sw.raised, st |-> sw.st, value |-> FALSE]
    ELSE verify_file_content(sw.st, w, svn_repo_path \o svn_file_path,
                             git_repo_path \o git_file_path, env)
\* lines 418-438, co: what the checkout did
verify_single_file_checked_out(co, w, commit_hash, svn_file_path, git_file_path, env) ==
    IF co.raised # "" THEN [raised |-> co.raised, st |-> co.st, value |-> FALSE]
    ELSE verify_single_file_switched(
             run(co.st, w, SwitchTo(commit_hash), TRUE, env.newKey, env.okSwitch),
             w, svn_file_path, git_file_path, env)
verify_single_file(st, w, rev_num, commit_hash, svn_file_path, git_file_path, env) ==
    verify_single_file_checked_out(
        run(st, w, CheckoutAt(rev_num), TRUE, env.newKey, env.okCheckout),
        w, commit_hash, svn_file_path, git_file_path, env)

\* mutant: only 'trunk' is a layout keyword
strip_branch_info_trunk_only(parts) ==
    IF Len(parts) < 2 THEN None
    ELSE LET start_index == IF parts[2] = "trunk" THEN 2 ELSE 1
         IN Some("/" \o JoinPath(SubSeq(parts, start_index + 1, Len(parts))))

\* parts: path.split("/").  None stands for the IndexError of parts[1].
strip_branch_info(parts) ==
    IF Len(parts) < 2 THEN None
    ELSE LET start_index ==
                 IF parts[2] = "trunk" THEN 2
                 ELSE IF parts[2] = "branches" /\ Len(parts) > 2 THEN 3
                 ELSE IF parts[2] = "tags" /\ Len(parts) > 2 THEN 3
                 ELSE 1
         IN Some("/" \o JoinPath(SubSeq(parts, start_index + 1, Len(parts))))

\* mutant: the three fields of the PathInfo
unpack_fields(path_info) ==
    [action |-> path_info.action, file_path |-> path_info.path, kind |-> path_info.kind]

\* "for action, file_path, kind in changed_paths": unpacking a dict gives its
\* keys.  A path is kept as path.split("/").
unpack(path_info) ==
    [action |-> PathInfoKeys[1], file_path |-> <<PathInfoKeys[2]>>, kind |-> PathInfoKeys[3]]

\* the loop of lines 381-399 from the i-th changed path on
RECURSIVE verify_paths(_, _, _, _, _, _)
\* lines 390-394, r: what _verify_single_file did
verify_paths_verified(r, w, revision, commit, env, i) ==
    IF r.raised # "" \/ ~ r.value THEN r
    ELSE verify_paths(r.st, w, revision, commit, env, i + 1)
\* lines 382-394, u: the unpacked changed path
verify_path(st, w, revision, commit, env, i, u) ==
    IF u.kind # "file" THEN verify_paths(st, w, revision, commit, env, i + 1)
    ELSE IF u.action = "A" \/ u.action = "M"
    THEN IF strip_branch_info(u.file_path) = None
         THEN [raised |-> "IndexError", st |-> st, value |-> FALSE]
         ELSE verify_paths_verified(
                  verify_single_file(st, w, revision.revision, commit.commit_hash,
                                     JoinPath(u.file_path),
                                     The(strip_branch_info(u.file_path)), env),
                  w, revision, commit, env, i)
    ELSE verify_paths(st, w, revision, commit, env, i + 1)
verify_paths(st, w, revision, commit, env, i) ==
    IF i > Len(revision.changed_paths)
    THEN [raised |-> "", st |-> st, value |-> TRUE]
    ELSE verify_path(st, w, revision, commit, env, i, unpack(revision.changed_paths[i]))

verify_changed_files(st, w, revision, commit, env) ==
    verify_paths(st, w, revision, commit, env, 1)

(***************************************************************************)
(* SVNToGitMigrator: the two mappings                                      *)
(***************************************************************************)
\* svn_revisions and git_commits are dicts: sequences in insertion order.
\* mutant: the revision is looked for among the commit hashes
get_git_commit_for_revision_by_hash(commits, rev_num) ==
    LET commit_list_for_rev == SelectSeq(commits, LAMBDA c : c.commit_hash = rev_num)
    IN IF Len(commit_list_for_rev) = 0 THEN None ELSE Some(commit_list_for_rev[1])

get_git_commit_for_revision(commits, rev_num) ==
    LET commit_list_for_rev == SelectSeq(commits, LAMBDA c : c.revision = Some(rev_num))
    IN IF Len(commit_list_for_rev) = 0 THEN None ELSE Some(commit_list_for_rev[1])

get_svn_revision_for_commit(commits, revisions, commit_hash) ==
    LET commit == The({commits[i] : i \in {j \in DOMAIN commits :
                                             commits[j].commit_hash = commit_hash}})
        rev_for_commit == commit.revision
        found == SelectSeq(revisions, LAMBDA r : Some(r.revision) = rev_for_commit)
    IN IF rev_for_commit = None THEN None
       ELSE IF Len(found) = 0 THEN None
       ELSE Some(found[1])

MappingErrors(missing, mismatch, file_mismatch) ==
    [missing |-> missing, mismatch |-> mismatch, file_mismatch |-> file_mismatch]
NoErrors == MappingErrors(<<>>, <<>>, <<>>)

\* mutant: a message mismatch is not an error
has_errors_without_mismatch(mapping_error) ==
    \/ Len(mapping_error.missing) > 0
    \/ Len(mapping_error.file_mismatch) > 0

has_errors(mapping_error) ==
    \/ Len(mapping_error.missing) > 0
    \/ Len(mapping_error.mismatch) > 0
    \/ Len(mapping_error.file_mismatch) > 0

\* lines 479-483 and 522-524, vcf: what verify_changed_files did
record_file_mismatch(errors, vcf, entry) ==
    [raised |-> vcf.raised, st |-> vcf.st,
     errors |-> IF vcf.raised = "" /\ ~ vcf.value
                THEN [errors EXCEPT !.file_mismatch = Append(@, entry)]
                ELSE errors]

\* lines 467-483: the revision has the commit c
verify_revision_matched(st, w, errors, revision, c, env) ==
    record_file_mismatch(
        IF c.message # revision.message
        THEN [errors EXCEPT !.mismatch =
                 Append(@, <<revision.revision, revision.message, c.message>>)]
        ELSE errors,
        verify_changed_files(st, w, revision, c, env),
        <<revision.revision, revision.message, c.message>>)

\* mutant: a revision without commit ends the pass
verify_revision_found_stopping(st, w, errors, revision, git_commit, env) ==
    IF git_commit = None
    THEN [raised |-> "LookupError", st |-> st, errors |-> errors]
    ELSE verify_revision_matched(st, w, errors, revision, The(git_commit), env)

\* lines 459-483, git_commit: what get_git_commit_for_revision found
verify_revision_found(st, w, errors, revision, git_commit, env) ==
    IF git_commit = None
    THEN [raised |-> "", st |-> st,
          errors |-> [errors EXCEPT
                        !.missing = Append(@, <<revision.revision, revision.message>>)]]
    ELSE verify_revision_matched(st, w, errors, revision, The(git_commit), env)

\* mutant: a revision several commits carry counts as missing
verify_revision_unique(st, w, commits, errors, revision, env) ==
    verify_revision_found(st, w, errors, revision,
        IF Len(SelectSeq(commits, LAMBDA c : c.revision = Some(revision.revision))) > 1
        THEN None
        ELSE get_git_commit_for_revision(commits, revision.revision), env)

\* The body of the loop of verify_svn_git_mapping for one revision.
verify_revision(st, w, commits, errors, revision, env) ==
    verify_revision_found(st, w, errors, revision,
                          get_git_commit_for_revision(commits, revision.revision), env)

\* lines 511-524: the commit has the revision r
verify_commit_matched(st, w, errors, commit, r, env) ==
    record_file_mismatch(
        IF r.message # commit.message
        THEN [errors EXCEPT !.mismatch =
                 Append(@, <<commit.commit_hash, commit.message, commit.revision>>)]
        ELSE errors,
        verify_changed_files(st, w, r, commit, env),
        <<commit.commit_hash, commit.message, commit.revision>>)

\* lines 503-524, svn_revision: what get_svn_revision_for_commit found
verify_commit_found(st, w, errors, commit, svn_revision, env) ==
    IF svn_revision = None
    THEN [raised |-> "", st |-> st,
          errors |-> [errors EXCEPT
                        !.missing = Append(@, <<commit.commit_hash, commit.message>>)]]
    ELSE verify_commit_matched(st, w, errors, commit, The(svn_revision), env)

\* The body of the loop of verify_git_svn_mapping for one commit.
verify_commit(st, w, commits, revisions, errors, commit, env) ==
    verify_commit_found(st, w, errors, commit,
                        get_svn_revision_for_commit(commits, revisions, commit.commit_hash),
                        env)

(***************************************************************************)
(* SVNToGitMigrator.get_svn_revisions, get_git_commits: parsing            *)
(***************************************************************************)
batch_size == 100

\* the while loop of lines 210-213
RECURSIVE build_range_list_from(_, _)
build_range_list_from(rev_start, last_rev) ==
    IF rev_start < last_rev
    THEN LET rev_end == IF rev_start + batch_size - 1 < last_rev
                        THEN rev_start + batch_size - 1 ELSE last_rev
         IN <<<<rev_start, rev_end>>>> \o build_range_list_from(rev_end + 1, last_rev)
    ELSE <<>>
build_range_list(last_rev) == build_range_list_from(1, last_rev)

\* a dict keyed by field: a later item replaces an earlier one in place
DictMerge(d, items, field) ==
    LET \* the positions of the items no later item replaces
        lasts == {i \in DOMAIN items :
                    \A j \in (i + 1)..Len(items) : items[j][field] # items[i][field]}
        Last(k) == items[CHOOSE i \in lasts : items[i][field] = k]
        \* the positions of the items that add a key
        firsts == {i \in DOMAIN items :
                     /\ \A j \in DOMAIN d : d[j][field] # items[i][field]
                     /\ \A j \in 1..(i - 1) : items[j][field] # items[i][field]}
        Adds(i) == i \in firsts
        kept == [i \in DOMAIN d |->
                   IF \E j \in lasts : items[j][field] = d[i][field]
                   THEN Last(d[i][field]) ELSE d[i]]
        added == SelectSeq([i \in DOMAIN items |-> i], Adds)
    IN kept \o [k \in DOMAIN added |-> Last(items[added[k]][field])]

\* int(result): only a number parses
ParsesAsInt(stdout) == stdout.kind = "int"
\* ET.fromstring(result.stdout): only an XML document parses
ParsesAsSvnLog(stdout) == stdout.kind = "svnxml"
\* ET.fromstring("<git_logs>" + stdout + "</git_logs>"): commit elements, or
\* text without markup, parse; an XML document with its declaration does not
ParsesAsGitLog(stdout) ==
    \/ stdout.kind = "gitxml"
    \/ stdout.kind = "int"
    \/ (stdout.kind = "text" /\ stdout.entries = <<>>)
get_git_commits_from_xml(stdout) ==
    IF stdout.kind = "gitxml"
    THEN [i \in DOMAIN stdout.entries |-> get_commit_info_for_logentry(stdout.entries[i])]
    ELSE <<>>
get_svn_revisions_from_xml(stdout) ==
    [i \in DOMAIN stdout.entries |-> get_revision_info_for_logentry(stdout.entries[i])]

(***************************************************************************)
(* What the index and the directory hold for a command.                    *)
(***************************************************************************)
StoredResult(ck, d, cmd) ==
    IF FirstMatch(ck, cmd) = None THEN None
    ELSE get_cached_result(d, The(FirstMatch(ck, cmd)))

NoneStored == [c \in Cmds |-> None]

(***************************************************************************)
(* Spec: the directory found at start-up is an input.                      *)
(***************************************************************************)
CacheableCmds == {c \in Cmds : is_cacheable_cmd(c)}

\* The directory found at start-up holds at most one stale result file, at
\* most one file named like a key, and an index file of at most one entry.
InputIndexes == {<<>>} \cup {<<Entry(k, c)>> : k \in Keys, c \in CacheableCmds}
AtMostOne(S) == {{}} \cup {{x} : x \in S}

\* a directory holding stale result files, files named like keys, and
\* possibly an index file
InputDir(stale, bare, index) ==
    LET names == {KeyFile(k) : k \in stale} \cup {KeyAsFileName(k) : k \in bare}
                 \cup (IF index = None THEN {} ELSE {cache_key_filename})
    IN [f \in names |->
          IF f = cache_key_filename THEN The(index)
          ELSE IF EndsWithJson(f) THEN StaleResult
          ELSE "blob"]

(***************************************************************************)
(* The state of a migration.                                               *)
(***************************************************************************)
VARIABLES
    world,        \* the two repositories the tools look at
    wc,           \* the unit each working copy reflects
    pc,           \* the position of migrate()
    svn_revisions,            \* self.svn_revisions
    git_commits,              \* self.git_commits
    range_list,               \* the batches get_svn_revisions still has to query
    todo,                     \* the records the running pass still has to visit
    mapping_revision_errors,  \* the lists of verify_svn_git_mapping
    mapping_commit_errors,    \* the lists of verify_git_svn_mapping
    success,                  \* the local of migrate()
    outcome                   \* what migrate() returned, the exception it caught,
                              \* and the status the process exited with

cacheVars == <<cache_keys, disk, cwd, call, stored, carried, ledger, ncalls>>
migVars == <<world, wc, pc, svn_revisions, git_commits, range_list, todo,
             mapping_revision_errors, mapping_commit_errors, success, outcome>>
vars == <<cacheVars, migVars>>

\* no migration is running
NoWorld == [lastRev |-> 0, svnLog |-> <<>>, svnTree |-> <<>>,
            gitLog |-> <<>>, gitTree |-> <<>>]
NoOutcome == [returned |-> None, raised |-> "", exit |-> None]
MigIdle ==
    /\ world = NoWorld
    /\ wc = [svn |-> None, git |-> None]
    /\ pc = "idle"
    /\ svn_revisions = <<>>
    /\ git_commits = <<>>
    /\ range_list = <<>>
    /\ todo = <<>>
    /\ mapping_revision_errors = NoErrors
    /\ mapping_commit_errors = NoErrors
    /\ success = TRUE
    /\ outcome = NoOutcome

InitCall == [op |-> "init", cmd |-> <<>>, check |-> FALSE, raised |-> "",
             result |-> None, executed |-> FALSE, ran |-> None,
             hadStored |-> FALSE, prior |-> None, carried |-> None,
             changed |-> FALSE, before |-> NoneStored, sameDir |-> FALSE,
             stderr |-> None, key |-> NoneKey, replaced |-> FALSE,
             producer |-> None, cleaned |-> FALSE]

\* The ledger: keys[c], the keys _get_cache_key has returned for command c;
\* producer[k], the command whose execution wrote the result file of key k
\* (None: no such file, or a file somebody else left); cleaned, the commands
\* whose cached result cleanup() removed and that were not run since.
NoLedger == [keys |-> [c \in Cmds |-> {}], producer |-> [k \in Keys |-> None],
             cleaned |-> {}]
\* the producers of the result files that are still in directory d
StillThere(producer, d) ==
    [k \in Keys |-> IF get_cached_result(d, k) = None THEN None ELSE producer[k]]

Init ==
    \E dir \in Dirs, stale \in AtMostOne(Keys), bare \in AtMostOne(Keys),
       index \in {None} \cup {Some(ix) : ix \in InputIndexes},
       moduleDirExists \in BOOLEAN :
        LET pre == IF dir = ModuleDir
                   THEN (ModuleDir :> InputDir(stale, bare, index))
                   ELSE IF moduleDirExists
                   THEN (ModuleDir :> InputDir(stale, {}, None))
                        @@ (OtherDir :> InputDir({}, bare, index))
                   ELSE (OtherDir :> InputDir({}, bare, index))
            cm == CacheManagerInit(pre, dir)
        IN /\ (dir = ModuleDir => moduleDirExists)
           /\ (~ moduleDirExists => stale = {})
           /\ cache_keys = cm.cache_keys
           /\ disk = cm.disk
           /\ cwd = dir
           /\ call = InitCall
           /\ stored = NoneStored
           /\ carried = NoneStored
           /\ ledger = NoLedger
           /\ ncalls = 0
           /\ MigIdle

\* One call of cached_run(cmd, check=check) on the object; gk: what
\* _get_cache_key did, r: what the call did.
CachedRunOn(gk, r, cmd, check, ran) ==
    /\ ncalls < MaxCalls
    /\ cache_keys' = r.cache_keys
    /\ disk' = r.disk
    /\ call' = [InitCall EXCEPT
                  !.op = "cached_run", !.cmd = cmd, !.check = check,
                  !.raised = r.raised, !.result = r.result,
                  !.executed = r.executed,
                  !.ran = IF r.executed THEN Some(ran) ELSE None,
                  !.hadStored = StoredResult(cache_keys, disk, cmd) # None,
                  !.prior = stored[cmd],
                  !.carried = carried[cmd],
                  !.changed = (r.cache_keys # cache_keys \/ r.disk # disk),
                  !.stderr = r.stderr,
                  !.key = gk.key,
                  !.replaced = \E c \in Cmds \ {cmd} :
                                  /\ FirstMatch(cache_keys, c) # None
                                  /\ FirstMatch(r.cache_keys, c) # FirstMatch(cache_keys, c),
                  !.producer = IF ~ r.executed /\ r.result # None
                               THEN ledger.producer[gk.key] ELSE None,
                  !.cleaned = cmd \in ledger.cleaned]
    /\ stored' = IF r.wrote THEN [stored EXCEPT ![cmd] = Some(ran)] ELSE stored
    /\ ledger' = [keys |-> IF gk.raised = "" /\ gk.key # NoneKey
                           THEN [ledger.keys EXCEPT ![cmd] = @ \cup {gk.key}]
                           ELSE ledger.keys,
                  producer |-> IF r.wrote
                               THEN [StillThere(ledger.producer, r.disk)
                                        EXCEPT ![gk.key] = Some(cmd)]
                               ELSE StillThere(ledger.producer, r.disk),
                  cleaned |-> IF r.executed \/ r.result # None
                              THEN ledger.cleaned \ {cmd} ELSE ledger.cleaned]
    /\ ncalls' = ncalls + 1
    /\ UNCHANGED <<cwd, carried>>
    /\ UNCHANGED migVars
CachedRun(cmd, check, newKey, ran) ==
    CachedRunOn(get_cache_key(cache_keys, disk, cmd, newKey),
                cached_run(cache_keys, disk, cmd, check, newKey, ran),
                cmd, check, ran)

\* The process ends and a new one constructs a CacheManager, in directory dir.
RestartOn(cm, dir) ==
    /\ ncalls < MaxCalls
    /\ cache_keys' = cm.cache_keys
    /\ disk' = cm.disk
    /\ cwd' = dir
    /\ call' = [InitCall EXCEPT !.before = stored, !.sameDir = (dir = cwd)]
    /\ carried' = IF dir = cwd THEN stored ELSE NoneStored
    /\ stored' = NoneStored
    /\ ledger' = [ledger EXCEPT !.producer = StillThere(@, cm.disk)]
    /\ ncalls' = ncalls + 1
    /\ UNCHANGED migVars
Restart(dir) == RestartOn(CacheManagerInit(disk, dir), dir)

\* One call of cleanup() on the object; cl: what the call did.
CleanupOn(cl) ==
    /\ ncalls < MaxCalls
    /\ disk' = cl.disk
    /\ call' = [InitCall EXCEPT !.op = "cleanup", !.raised = cl.raised]
    /\ stored' = IF cl.raised = "" THEN NoneStored ELSE stored
    /\ carried' = IF cl.raised = "" THEN NoneStored ELSE carried
    /\ ledger' = [ledger EXCEPT
                    !.producer = StillThere(@, cl.disk),
                    !.cleaned = IF cl.raised = ""
                                THEN @ \cup {c \in Cmds :
                                               StoredResult(cache_keys, disk, c) # None}
                                ELSE @]
    /\ ncalls' = ncalls + 1
    /\ UNCHANGED <<cache_keys, cwd>>
    /\ UNCHANGED migVars
Cleanup == CleanupOn(cleanup(disk))

\* The key random.choices draws matters only when a key is minted, and the
\* answer of the tool only when the command is not served from the index.
MintChoices(cmd) ==
    IF is_cacheable_cmd(cmd) /\ FirstMatch(cache_keys, cmd) = None /\ Len(cache_keys) > 0
    THEN Keys ELSE {KeyNames[1]}
Answers(cmd) ==
    IF is_cacheable_cmd(cmd) /\ StoredResult(cache_keys, disk, cmd) # None
    THEN {Result(0, "out", "")} ELSE ProviderResults

Next ==
    \/ \E cmd \in Cmds, check \in BOOLEAN :
          \E newKey \in MintChoices(cmd), ran \in Answers(cmd) :
             CachedRun(cmd, check, newKey, ran)
    \/ \E dir \in Dirs : Restart(dir)
    \/ Cleanup

Spec == Init /\ [][Next]_vars

(***************************************************************************)
(* SpecCorrupt: the result files can lose their content.                   *)
(***************************************************************************)
\* The result file of key k, written by json.dump (line 104) or left in the
\* directory, is cut short or overwritten from outside the object.
CorruptFile(k) ==
    /\ ModuleDir \in DOMAIN disk
    /\ KeyFile(k) \in DOMAIN disk[ModuleDir]
    /\ disk[ModuleDir][KeyFile(k)] # Undecodable
    /\ disk' = [disk EXCEPT ![ModuleDir][KeyFile(k)] = Undecodable]
    /\ UNCHANGED <<cache_keys, cwd, call, stored, carried, ledger, ncalls>>
    /\ UNCHANGED migVars

NextCorrupt ==
    \/ \E cmd \in Cmds, check \in BOOLEAN :
          \E newKey \in MintChoices(cmd), ran \in ProviderResults :
             CachedRun(cmd, check, newKey, ran)
    \/ \E dir \in Dirs : Restart(dir)
    \/ \E k \in Keys : CorruptFile(k)

SpecCorrupt == Init /\ [][NextCorrupt]_vars

(***************************************************************************)
(* SpecMig: one run of migrate() on a pair of repositories.                *)
(***************************************************************************)
\* The svn repository of n revisions: revision 1 adds /trunk and
\* /trunk/a.txt, every later revision modifies /trunk/a.txt.
SvnMsg(r) == <<"a", " ", ToString(r), "\n">>
TrunkFile == <<"", "trunk", "a.txt">>
SvnLogEntry(r) ==
    [revision |-> ToString(r), msg |-> SvnMsg(r),
     paths |-> IF r = 1
               THEN <<PathInfo("A", <<"", "trunk">>, "dir"), PathInfo("A", TrunkFile, "file")>>
               ELSE <<PathInfo("M", TrunkFile, "file")>>]
SvnContent(u) == "v" \o u
SvnTree(n) == [u \in {ToString(i) : i \in 1..n} |-> ("/trunk/a.txt" :> SvnContent(u))]

\* What a commit of the git repository can be: made from revision r, with
\* its message or another one, with its content or content one byte off;
\* a commit git-svn did not make; a commit whose marker is followed by
\* the URL form git-svn writes.
Trailer(id) == <<"\n", "\n", Marker, id, " ", "uuid", "\n">>
Linked(r, sameMsg, sameContent) ==
    [message |-> (IF sameMsg THEN <<"a", " ", ToString(r)>> ELSE <<"b", " ", ToString(r)>>)
                 \o Trailer(ToString(r)),
     content |-> IF sameContent THEN SvnContent(ToString(r)) ELSE "w" \o ToString(r)]
NoLink == [message |-> <<"l", "\n">>, content |-> "v0"]
UrlLink == [message |-> <<"a", " ", "1">> \o Trailer(svn_repo_url \o "/trunk@1"), content |-> "v1"]
GitCandidates(n) ==
    {Linked(r, TRUE, TRUE) : r \in 1..n} \cup {Linked(r, TRUE, FALSE) : r \in 1..n}
    \cup {Linked(r, FALSE, TRUE) : r \in 1..n} \cup {NoLink, UrlLink}
Hash(i) == "c" \o ToString(i)
SeqsUpTo(S, n) == UNION {[1..k -> S] : k \in 0..n}

MakeWorld(n, svnLog, commits) ==
    [lastRev |-> n, svnLog |-> svnLog, svnTree |-> SvnTree(n),
     gitLog |-> [i \in DOMAIN commits |-> [hash |-> Hash(i), message |-> commits[i].message]],
     gitTree |-> [h \in {Hash(i) : i \in DOMAIN commits} |->
                    ("/a.txt" :> commits[CHOOSE i \in DOMAIN commits : Hash(i) = h].content)]]
Worlds ==
    {MakeWorld(n, [r \in 1..n |-> SvnLogEntry(r)], commits) :
        n \in 1..MaxRevs, commits \in SeqsUpTo(GitCandidates(MaxRevs), MaxCommits)}

\* The cache directory migrate() starts on: none, or one whose index names
\* one key that has a file of its own name (the only kind of index entry
\* __init__ keeps).
WorkingDir ==
    (ModuleDir :> InputDir({}, {KeyNames[1]}, Some(<<Entry(KeyNames[1], DiffCmd)>>)))
StartDirs == {<<>>, WorkingDir}
WorkingCopies == [svn : {None, Some(Head_)}, git : {None, Some(Head_)}]

MigStart(w, pre, wc0, at) ==
    LET cm == CacheManagerInit(pre, ModuleDir)
    IN /\ cache_keys = cm.cache_keys
       /\ disk = cm.disk
       /\ cwd = ModuleDir
       /\ call = InitCall
       /\ stored = NoneStored
       /\ carried = NoneStored
       /\ ledger = NoLedger
       /\ ncalls = 0
       /\ world = w
       /\ wc = wc0
       /\ pc = at
       /\ svn_revisions = <<>>
       /\ git_commits = <<>>
       /\ range_list = <<>>
       /\ todo = <<>>
       /\ mapping_revision_errors = NoErrors
       /\ mapping_commit_errors = NoErrors
       /\ success = TRUE
       /\ outcome = NoOutcome

InitMig == \E w \in Worlds, pre \in StartDirs, wc0 \in WorkingCopies :
        MigStart(w, pre, wc0, "get_svn_revisions")

CurSt == [cache_keys |-> cache_keys, disk |-> disk, wc |-> wc]
SetSt(st) == cache_keys' = st.cache_keys /\ disk' = st.disk /\ wc' = st.wc
MigData == <<svn_revisions, git_commits, range_list, todo,
             mapping_revision_errors, mapping_commit_errors, success>>
Fixed == <<cwd, call, stored, carried, ledger, ncalls, world>>

\* the except clauses of migrate(): lines 580-586
Caught(exc) ==
    /\ pc' = "done"
    /\ outcome' = [returned |-> Some(FALSE), raised |-> exc, exit |-> None]
    /\ UNCHANGED MigData

\* The key random.choices draws: one of the keys in use, or an unused one
\* (all unused keys behave alike).
MigKeys == {KeyNames[i] : i \in 1..(NumKeys + 2)}
Unused == MigKeys \ DictKeys(cache_keys)
MigMint(cmd) ==
    IF FirstMatch(cache_keys, cmd) = None /\ Len(cache_keys) > 0
    THEN DictKeys(cache_keys) \cup
         (IF Unused = {} THEN {}
          ELSE {KeyNames[CHOOSE i \in 1..(NumKeys + 2) :
                            KeyNames[i] \in Unused /\
                            \A j \in 1..(i - 1) : KeyNames[j] \notin Unused]})
    ELSE {KeyNames[1]}

\* get_svn_revisions, lines 199-213; r: what cached_run did
GetLastRevOn(r) ==
    /\ SetSt(r.st)
    /\ UNCHANGED Fixed
    /\ IF r.raised # "" THEN Caught(r.raised)
       ELSE IF ~ ParsesAsInt(The(r.result).stdout) THEN Caught("ValueError")
       ELSE /\ range_list' = build_range_list(The(r.result).stdout.n)
            /\ pc' = IF range_list' = <<>> THEN "clone_svn" ELSE "svn_log"
            /\ UNCHANGED <<svn_revisions, git_commits, todo, mapping_revision_errors,
                           mapping_commit_errors, success, outcome>>
GetLastRev(newKey, ok) ==
    /\ pc = "get_svn_revisions"
    /\ GetLastRevOn(run(CurSt, world, last_rev_cmd, TRUE, newKey, ok))

\* mutant: get_svn_revisions returns after its first batch
GetLogBatchOn_first_batch(r) ==
    /\ SetSt(r.st)
    /\ UNCHANGED Fixed
    /\ IF r.raised # "" THEN Caught(r.raised)
       ELSE IF The(r.result).returncode # 0 THEN Caught("Exception")
       ELSE IF ~ ParsesAsSvnLog(The(r.result).stdout) THEN Caught("ParseError")
       ELSE /\ svn_revisions' = DictMerge(svn_revisions,
                                    get_svn_revisions_from_xml(The(r.result).stdout),
                                    "revision")
            /\ pc' = "clone_svn"
            /\ UNCHANGED <<range_list, git_commits, todo, mapping_revision_errors,
                           mapping_commit_errors, success, outcome>>

\* get_svn_revisions, lines 215-242: one batch; r: what cached_run did
GetLogBatchOn(r) ==
    /\ SetSt(r.st)
    /\ UNCHANGED Fixed
    /\ IF r.raised # "" THEN Caught(r.raised)
       ELSE IF The(r.result).returncode # 0 THEN Caught("Exception")
       ELSE IF ~ ParsesAsSvnLog(The(r.result).stdout) THEN Caught("ParseError")
       ELSE /\ svn_revisions' = DictMerge(svn_revisions,
                                    get_svn_revisions_from_xml(The(r.result).stdout),
                                    "revision")
            /\ range_list' = Tail(range_list)
            /\ pc' = IF Tail(range_list) = <<>> THEN "clone_svn" ELSE "svn_log"
            /\ UNCHANGED <<git_commits, todo, mapping_revision_errors,
                           mapping_commit_errors, success, outcome>>
GetLogBatch(newKey, ok) ==
    /\ pc = "svn_log"
    /\ GetLogBatchOn(run(CurSt, world, LogCmd(Head(range_list)[1], Head(range_list)[2]),
                         FALSE, newKey, ok))

\* clone_svn_repo and clone_git_svn_repo; r: what cached_run did
CloneOn(r, next) ==
    /\ SetSt(r.st)
    /\ IF r.raised # "" THEN Caught(r.raised)
       ELSE pc' = next /\ UNCHANGED <<MigData, outcome>>

\* migrate, lines 540-542
CloneSvn(ok) ==
    /\ pc = "clone_svn"
    /\ UNCHANGED Fixed
    /\ IF wc.svn # None
       THEN pc' = "clone_git" /\ UNCHANGED <<cache_keys, disk, wc, MigData, outcome>>
       ELSE CloneOn(run(CurSt, world, CloneSvnCmd, TRUE, KeyNames[1], ok), "clone_git")

\* migrate, lines 544-546
CloneGit(ok) ==
    /\ pc = "clone_git"
    /\ UNCHANGED Fixed
    /\ IF wc.git # None
       THEN pc' = "get_git_commits" /\ UNCHANGED <<cache_keys, disk, wc, MigData, outcome>>
       ELSE CloneOn(run(CurSt, world, CloneGitCmd, TRUE, KeyNames[1], ok), "get_git_commits")

\* get_git_commits; r: what cached_run did
GetGitCommitsOn(r) ==
    /\ SetSt(r.st)
    /\ UNCHANGED Fixed
    /\ IF r.raised # "" THEN Caught(r.raised)
       ELSE IF The(r.result).returncode # 0 THEN Caught("Exception")
       ELSE IF ~ ParsesAsGitLog(The(r.result).stdout) THEN Caught("ParseError")
       ELSE /\ git_commits' = DictMerge(<<>>, get_git_commits_from_xml(The(r.result).stdout),
                                        "commit_hash")
            /\ pc' = "verify_svn_git_mapping"
            /\ todo' = svn_revisions
            /\ UNCHANGED <<svn_revisions, range_list, mapping_revision_errors,
                           mapping_commit_errors, success, outcome>>
GetGitCommits(newKey, ok) ==
    /\ pc = "get_git_commits"
    /\ GetGitCommitsOn(run(CurSt, world, GitLogCmd, FALSE, newKey, ok))

Envs == [newKey : MigKeys, okCheckout : BOOLEAN, okSwitch : BOOLEAN, okDiff : BOOLEAN]

\* verify_svn_git_mapping: one revision; r: what the body of the loop did
VerifyRevisionOn(r) ==
    /\ SetSt(r.st)
    /\ UNCHANGED Fixed
    /\ IF r.raised # "" THEN Caught(r.raised)
       ELSE /\ mapping_revision_errors' = r.errors
            /\ todo' = Tail(todo)
            /\ UNCHANGED <<pc, svn_revisions, git_commits, range_list,
                           mapping_commit_errors, success, outcome>>
VerifyRevision(env) ==
    /\ pc = "verify_svn_git_mapping"
    /\ todo # <<>>
    /\ VerifyRevisionOn(verify_revision(CurSt, world, git_commits,
                                        mapping_revision_errors, Head(todo), env))

\* migrate, lines 553-561
EndRevisions ==
    /\ pc = "verify_svn_git_mapping"
    /\ todo = <<>>
    /\ success' = IF has_errors(mapping_revision_errors) THEN FALSE ELSE success
    /\ pc' = "verify_git_svn_mapping"
    /\ todo' = git_commits
    /\ UNCHANGED <<cacheVars, world, wc, svn_revisions, git_commits, range_list,
                   mapping_revision_errors, mapping_commit_errors, outcome>>

\* verify_git_svn_mapping: one commit; r: what the body of the loop did
VerifyCommitOn(r) ==
    /\ SetSt(r.st)
    /\ UNCHANGED Fixed
    /\ IF r.raised # "" THEN Caught(r.raised)
       ELSE /\ mapping_commit_errors' = r.errors
            /\ todo' = Tail(todo)
            /\ UNCHANGED <<pc, svn_revisions, git_commits, range_list,
                           mapping_revision_errors, success, outcome>>
VerifyCommit(env) ==
    /\ pc = "verify_git_svn_mapping"
    /\ todo # <<>>
    /\ VerifyCommitOn(verify_commit(CurSt, world, git_commits, svn_revisions,
                                    mapping_commit_errors, Head(todo), env))

\* migrate, lines 564-579
EndCommits ==
    LET s == IF has_errors(mapping_commit_errors) THEN FALSE ELSE success
    IN /\ pc = "verify_git_svn_mapping"
       /\ todo = <<>>
       /\ success' = s
       /\ pc' = "done"
       /\ outcome' = [returned |-> Some(s), raised |-> "", exit |-> None]
       /\ UNCHANGED <<cacheVars, world, wc, svn_revisions, git_commits, range_list,
                      todo, mapping_revision_errors, mapping_commit_errors>>

\* main, line 606: the status main() returns
main_status(migrated) == IF migrated THEN 0 ELSE 1
\* line 610: the statement "main()" drops the value main() returns, and the
\* interpreter ends the script with status 0
script_status(returned) == 0

\* main, lines 604-610: migrate() has returned
MainExit ==
    /\ pc = "done"
    /\ pc' = "exited"
    /\ outcome' = [outcome EXCEPT
                     !.exit = Some(script_status(main_status(The(outcome.returned))))]
    /\ UNCHANGED <<cacheVars, world, wc, MigData>>

NextMig ==
    \/ \E newKey \in MigMint(last_rev_cmd), ok \in BOOLEAN : GetLastRev(newKey, ok)
    \/ /\ pc = "svn_log"
       /\ \E ok \in BOOLEAN :
             \E newKey \in MigMint(LogCmd(Head(range_list)[1], Head(range_list)[2])) :
                GetLogBatch(newKey, ok)
    \/ \E ok \in BOOLEAN : CloneSvn(ok)
    \/ \E ok \in BOOLEAN : CloneGit(ok)
    \/ \E newKey \in MigMint(GitLogCmd), ok \in BOOLEAN : GetGitCommits(newKey, ok)
    \/ \E env \in Envs : VerifyRevision(env)
    \/ EndRevisions
    \/ \E env \in Envs : VerifyCommit(env)
    \/ EndCommits
    \/ MainExit

SpecMig == InitMig /\ [][NextMig]_vars

\* SpecMigFair: migrate() is one sequential call: while a step of it is
\* possible, one is taken.  The commits are a commit of revision 1 with
\* another message, a commit of the last revision with other content, and a
\* commit git-svn did not make.
FairWorlds ==
    {MakeWorld(MaxRevs, [r \in 1..MaxRevs |-> SvnLogEntry(r)], commits) :
        commits \in SeqsUpTo({Linked(1, FALSE, TRUE), Linked(MaxRevs, TRUE, FALSE), NoLink},
                             MaxCommits)}
InitFair == \E w \in FairWorlds, pre \in StartDirs, wc0 \in WorkingCopies :
        MigStart(w, pre, wc0, "get_svn_revisions")
SpecMigFair == InitFair /\ [][NextMig]_vars /\ WF_vars(NextMig)

\* SpecBatch: repositories of one to MaxBatches batches of revisions, the
\* last batch holding two revisions; the git repository has no commit, a
\* commit of revision 1, or a commit git-svn did not make.
BatchWorlds ==
    {MakeWorld(n, [r \in 1..n |-> SvnLogEntry(r)], commits) :
        n \in {(b - 1) * batch_size + 2 : b \in 1..MaxBatches},
        commits \in SeqsUpTo({Linked(1, TRUE, TRUE), NoLink}, 1)}
InitBatch == \E w \in BatchWorlds, pre \in StartDirs, wc0 \in WorkingCopies :
        MigStart(w, pre, wc0, "get_svn_revisions")
SpecBatch == InitBatch /\ [][NextMig]_vars

(***************************************************************************)
(* SpecTwice: after migrate() the two passes are called once more on the   *)
(* same migrator.                                                          *)
(***************************************************************************)
\* mutant: a pass goes on with the lists of the call before
pass_lists_kept(before) == before

\* lines 449-451 and 493-495: a pass starts with new empty lists, whatever
\* the call before returned
pass_lists(before) == NoErrors

\* verify_svn_git_mapping() and then verify_git_svn_mapping() are called
\* again; in between the working copies were left at wc1 and the cache
\* directory was emptied or not.
RunPassesAgain(wc1, emptied) ==
    /\ pc = "done"
    /\ outcome.raised = ""
    /\ call.op = "init"
    /\ call' = [op |-> "passes", revision_errors |-> mapping_revision_errors,
                commit_errors |-> mapping_commit_errors]
    /\ wc' = wc1
    /\ disk' = IF emptied THEN cleanup(disk).disk ELSE disk
    /\ pc' = "verify_svn_git_mapping"
    /\ todo' = svn_revisions
    /\ mapping_revision_errors' = pass_lists(mapping_revision_errors)
    /\ mapping_commit_errors' = pass_lists(mapping_commit_errors)
    /\ success' = TRUE
    /\ outcome' = NoOutcome
    /\ UNCHANGED <<cache_keys, cwd, stored, carried, ledger, ncalls, world,
                   svn_revisions, git_commits, range_list>>

NextTwice ==
    \/ NextMig
    \/ \E wc1 \in WorkingCopies, emptied \in BOOLEAN : RunPassesAgain(wc1, emptied)

SpecTwice == InitFair /\ [][NextTwice]_vars

(***************************************************************************)
(* SpecPath: strip_branch_info on an absolute path.                        *)
(***************************************************************************)
\* the segments of a path; the empty segment is what path.split("/") gives
\* between two slashes and after a trailing slash
Segments == {"trunk", "branches", "tags", "rel1", "src", "a.txt", ""}
\* path.split("/") of the absolute paths of at most MaxSegments segments
AbsolutePaths == {<<"">> \o segs : segs \in SeqsUpTo(Segments, MaxSegments) \ {<<>>}}

InitPath ==
    \E parts \in AbsolutePaths :
        /\ cache_keys = <<>>
        /\ disk = <<>>
        /\ cwd = ModuleDir
        /\ call = [op |-> "path", parts |-> parts, result |-> None]
        /\ stored = NoneStored
        /\ carried = NoneStored
        /\ ledger = NoLedger
        /\ ncalls = 0
        /\ MigIdle

\* strip_branch_info(path)
StripBranchInfo ==
    /\ call.op = "path"
    /\ call' = [op |-> "strip_branch_info", parts |-> call.parts,
                result |-> strip_branch_info(call.parts)]
    /\ UNCHANGED <<cache_keys, disk, cwd, stored, carried, ledger, ncalls, migVars>>

NextPath == StripBranchInfo

SpecPath == InitPath /\ [][NextPath]_vars

(***************************************************************************)
(* SpecVerify: calls of _verify_single_file on one migrator.               *)
(***************************************************************************)
\* every revision has its commit, with the revision's content or not
VerifyWorlds ==
    {MakeWorld(MaxRevs, [r \in 1..MaxRevs |-> SvnLogEntry(r)],
               [r \in 1..MaxRevs |-> Linked(r, TRUE, same[r])]) :
        same \in [1..MaxRevs -> BOOLEAN]}

InitVerify ==
    \E w \in VerifyWorlds, pre \in StartDirs, wc0 \in WorkingCopies :
        MigStart(w, pre, wc0, "verify_single_file")

\* r: what _verify_single_file did
VerifySingleFileOn(r, rev_num, commit_hash, svn_file_path, git_file_path, env) ==
    /\ SetSt(r.st)
    /\ call' = [op |-> "verify_single_file", rev_num |-> rev_num,
                commit_hash |-> commit_hash, svn_file_path |-> svn_file_path,
                git_file_path |-> git_file_path, raised |-> r.raised,
                value |-> r.value,
                toolsOk |-> env.okCheckout /\ env.okSwitch /\ env.okDiff]
    /\ ncalls' = ncalls + 1
    /\ UNCHANGED <<cwd, stored, carried, ledger, world, pc, MigData, outcome>>

\* _verify_single_file(rev_num, commit_hash, svn_file_path, git_file_path)
VerifySingleFile(rev_num, commit_hash, parts, env) ==
    /\ pc = "verify_single_file"
    /\ ncalls < MaxCalls
    /\ VerifySingleFileOn(
           verify_single_file(CurSt, world, rev_num, commit_hash, JoinPath(parts),
                              The(strip_branch_info(parts)), env),
           rev_num, commit_hash, JoinPath(parts), The(strip_branch_info(parts)), env)

VerifyEnvs ==
    [newKey : MigMint(DiffOf(svn_repo_path \o JoinPath(TrunkFile),
                             git_repo_path \o The(strip_branch_info(TrunkFile)))),
     okCheckout : BOOLEAN, okSwitch : BOOLEAN, okDiff : BOOLEAN]

NextVerify ==
    \E rev_num \in SvnUnits(world), commit_hash \in GitUnits(world), env \in VerifyEnvs :
        VerifySingleFile(rev_num, commit_hash, TrunkFile, env)

SpecVerify == InitVerify /\ [][NextVerify]_vars

(***************************************************************************)
(* SpecMsg: migrate() on a revision and its commit, over their messages.   *)
(***************************************************************************)
MsgChars == {"a", " "}
\* the message of the revision
MsgBodies ==
    SeqsUpTo(MsgChars, MaxMsgLen)
    \cup {<<"a", "\n">>, <<CreateInitialStructure>>, <<CreatingStandardLayout>>}
\* the message of the commit, before the trailer git-svn adds
GitBodies ==
    {<<"a">>, <<"a", " ", "a">>, <<"a", " ", " ", "a">>, <<" ", "a", "\n">>,
     <<CreateInitialStructure>>, <<CreatingStandardLayout>>}

\* two revisions; the commit of revision 1 is the only commit
MsgWorlds ==
    {MakeWorld(2, [r \in 1..2 |-> IF r = 1 THEN [SvnLogEntry(1) EXCEPT !.msg = m1]
                                  ELSE SvnLogEntry(r)],
               <<[message |-> m2 \o Trailer("1"), content |-> SvnContent("1")]>>) :
        m1 \in MsgBodies, m2 \in GitBodies}

InitMsg ==
    \E w \in MsgWorlds :
        MigStart(w, WorkingDir, [svn |-> Some(Head_), git |-> Some(Head_)],
                 "get_svn_revisions")

SpecMsg == InitMsg /\ [][NextMig]_vars

(***************************************************************************)
(* Claims about the CacheManager (specification Spec).                     *)
(***************************************************************************)
\* a command with a 'checkout', 'clone' or 'switch' token
Mutating(cmd) == \E i \in DOMAIN cmd : cmd[i] \in {"checkout", "clone", "switch"}
\* the keys that have a result file in self.cache_dir
ResultFileKeys(d) ==
    IF ModuleDir \in DOMAIN d THEN {k \in Keys : KeyFile(k) \in DOMAIN d[ModuleDir]} ELSE {}
Returned(c) == c.raised = "" \/ (c.check /\ c.raised = "CalledProcessError")

\* C1: a cached_run on a cacheable command with no stored result executes
\* the query once, stores its result under the command's key and returns it.
C1_CacheMissRunsAndStores ==
    (call.op = "cached_run" /\ ~ Mutating(call.cmd) /\ ~ call.hadStored)
    => /\ call.executed
       /\ call.result = call.ran
       /\ StoredResult(cache_keys, disk, call.cmd) = call.ran
       /\ Returned(call)

\* C2: a cached_run after an earlier cached_run of the same command on the
\* same object obtains the result the earlier call stored and runs nothing.
C2_RoundTrip ==
    (call.op = "cached_run" /\ ~ Mutating(call.cmd) /\ call.prior # None)
    => (~ call.executed /\ call.result = call.prior /\ Returned(call))

\* C3: a result stored for a command survives the initialization of a new
\* CacheManager on the same directory, and cached_run of the command then
\* obtains it without running the query.
C3_SurvivesRestart ==
    /\ (call.op = "init" /\ call.sameDir)
       => \A cmd \in Cmds : call.before[cmd] # None
             => StoredResult(cache_keys, disk, cmd) = call.before[cmd]
    /\ (call.op = "cached_run" /\ call.carried # None /\ call.prior = None)
       => (~ call.executed /\ call.result = call.carried)

\* C4: right after initialization every result file of the cache directory
\* has an index entry and every index entry has a result file.
C4_IndexMatchesFiles ==
    call.op = "init" => ResultFileKeys(disk) = DictKeys(cache_keys)

Least(S) == CHOOSE x \in S : \A y \in S : x <= y
Greatest(S) == CHOOSE x \in S : \A y \in S : y <= x
\* migrate() ran both passes and returned
Finished == pc = "done" /\ outcome.raised = ""
\* the log entries the repositories hold for a revision and for a commit
SvnEntryOf(rev) == world.svnLog[CHOOSE i \in DOMAIN world.svnLog : world.svnLog[i].revision = rev]
GitEntryOf(hash) == world.gitLog[CHOOSE i \in DOMAIN world.gitLog : world.gitLog[i].hash = hash]
\* the extracted commits whose foreign link is the revision
CommitsLinking(rev) == {j \in DOMAIN git_commits : git_commits[j].revision = {rev}}
\* the extracted revisions the foreign link of the commit names
RevisionsLinked(j) == {i \in DOMAIN svn_revisions : git_commits[j].revision = {svn_revisions[i].revision}}
\* the ids a list of a pass names
Listed(list) == {list[i][1] : i \in DOMAIN list}
\* the (revision, commit) pairs the first pass compares: a revision and the
\* first commit that links it
RevisionPairs ==
    {<<svn_revisions[i].revision,
       git_commits[Least(CommitsLinking(svn_revisions[i].revision))].commit_hash>> :
        i \in {k \in DOMAIN svn_revisions : CommitsLinking(svn_revisions[k].revision) # {}}}
\* the (revision, commit) pairs the second pass compares: a commit and the
\* revision it links
CommitPairs ==
    {<<svn_revisions[Least(RevisionsLinked(j))].revision, git_commits[j].commit_hash>> :
        j \in {k \in DOMAIN git_commits : RevisionsLinked(k) # {}}}

\* the file of the target a path of the source is compared with
TargetPath(parts) == "/" \o JoinPath(SubSeq(parts, 3, Len(parts)))
\* the content of a file at a revision and at a commit
SourceContent(rev, path) == world.svnTree[rev][path]
TargetContent(hash, path) == world.gitTree[hash][path]

\* C6: the result _verify_single_file returns for a path at (revision,
\* commit), when the tools work, says whether the content of the path at that
\* revision equals the content of its target path at that commit.
C6_ResultOfCurrentPair ==
    (pc = "verify_single_file" /\ call.op = "verify_single_file"
        /\ call.raised = "" /\ call.toolsOk)
    => (call.value <=> (SourceContent(call.rev_num, call.svn_file_path)
                           = TargetContent(call.commit_hash, call.git_file_path)))

\* some added or modified file of the revision differs from its target
FilesDiffer(rev, hash) ==
    \E k \in DOMAIN SvnEntryOf(rev).paths :
        LET p == SvnEntryOf(rev).paths[k]
        IN /\ p.kind = "file"
           /\ p.action \in {"A", "M"}
           /\ SourceContent(rev, JoinPath(p.path)) # TargetContent(hash, TargetPath(p.path))

\* C7: when migrate() has returned, a matched (revision, commit) pair is in
\* file_mismatch of its pass if and only if an added or modified file of the
\* revision has different content in source and target.
C7_FileMismatchIffContentDiffers ==
    Finished =>
        /\ \A pair \in RevisionPairs :
              pair[1] \in Listed(mapping_revision_errors.file_mismatch)
              <=> FilesDiffer(pair[1], pair[2])
        /\ \A pair \in CommitPairs :
              pair[2] \in Listed(mapping_commit_errors.file_mismatch)
              <=> FilesDiffer(pair[1], pair[2])

\* C8: when migrate() has returned, a revision is in missing of the first
\* pass if and only if no commit has its id as foreign link, and a commit is
\* in missing of the second pass if and only if it has no foreign link or
\* its foreign link is the id of no revision.
C8_MissingBothDirections ==
    Finished =>
        /\ \A i \in DOMAIN svn_revisions :
              svn_revisions[i].revision \in Listed(mapping_revision_errors.missing)
              <=> CommitsLinking(svn_revisions[i].revision) = {}
        /\ Listed(mapping_revision_errors.missing)
              \subseteq {svn_revisions[i].revision : i \in DOMAIN svn_revisions}
        /\ \A j \in DOMAIN git_commits :
              git_commits[j].commit_hash \in Listed(mapping_commit_errors.missing)
              <=> (git_commits[j].revision = {} \/ RevisionsLinked(j) = {})
        /\ Listed(mapping_commit_errors.missing)
              \subseteq {git_commits[j].commit_hash : j \in DOMAIN git_commits}

\* every revision has its commit, and a commit nothing links is in missing
C8_Witness ==
    /\ Finished
    /\ svn_revisions # <<>>
    /\ mapping_revision_errors.missing = <<>>
    /\ \E j \in DOMAIN git_commits :
          /\ git_commits[j].revision = {}
          /\ git_commits[j].commit_hash \in Listed(mapping_commit_errors.missing)
    /\ \E j \in DOMAIN git_commits :
          /\ git_commits[j].revision # {}
          /\ git_commits[j].commit_hash \notin Listed(mapping_commit_errors.missing)

IsSpace(ch) == ch \in {" ", "\n", "\t"}
\* the message without its leading and trailing whitespace
Trimmed(msg) ==
    LET ink == {i \in DOMAIN msg : ~ IsSpace(msg[i])}
    IN IF ink = {} THEN <<>> ELSE SubSeq(msg, Least(ink), Greatest(ink))
\* the trimmed message with every run of whitespace made one space
RECURSIVE CollapseRuns(_)
CollapseRuns(msg) ==
    IF msg = <<>> THEN <<>>
    ELSE IF IsSpace(msg[1])
    THEN IF Len(msg) > 1 /\ IsSpace(msg[2]) THEN CollapseRuns(Tail(msg))
         ELSE <<" ">> \o CollapseRuns(Tail(msg))
    ELSE <<msg[1]>> \o CollapseRuns(Tail(msg))
Normalized(msg) == CollapseRuns(Trimmed(msg))
\* the message of a commit: the text before the first marker
BeforeMarker(msg) ==
    LET at == {i \in DOMAIN msg : msg[i] = Marker}
    IN IF at = {} THEN msg ELSE SubSeq(msg, 1, Least(at) - 1)
\* the two messages of a pair differ once normalized
DifferNormalized(pair) ==
    Normalized(SvnEntryOf(pair[1]).msg)
        # Normalized(BeforeMarker(GitEntryOf(pair[2]).message))

\* C9 as stated: when migrate() has returned, a matched pair is in mismatch
\* if and only if its two messages differ after collapsing the runs of
\* internal whitespace and trimming.
C9_CollapsedComparison ==
    Finished =>
        /\ \A pair \in RevisionPairs :
              pair[1] \in Listed(mapping_revision_errors.mismatch) <=> DifferNormalized(pair)
        /\ \A pair \in CommitPairs :
              pair[2] \in Listed(mapping_commit_errors.mismatch) <=> DifferNormalized(pair)

\* the trimmed message of a commit as the comparison takes it
ComparedGitMessage(msg) ==
    IF Trimmed(BeforeMarker(msg)) = <<CreateInitialStructure>>
    THEN <<CreatingStandardLayout>>
    ELSE Trimmed(BeforeMarker(msg))

\* C9 amended: when migrate() has returned, a matched pair is in mismatch if
\* and only if the trimmed message of the revision is not exactly the trimmed
\* text before the first marker of the commit's message ('Create initial
\* structure' read as 'Creating standard repository layout'); whitespace
\* inside a message counts.
C9_TrimmedComparison ==
    Finished =>
        /\ \A pair \in RevisionPairs :
              pair[1] \in Listed(mapping_revision_errors.mismatch)
              <=> Trimmed(SvnEntryOf(pair[1]).msg)
                     # ComparedGitMessage(GitEntryOf(pair[2]).message)
        /\ \A pair \in CommitPairs :
              pair[2] \in Listed(mapping_commit_errors.mismatch)
              <=> Trimmed(SvnEntryOf(pair[1]).msg)
                     # ComparedGitMessage(GitEntryOf(pair[2]).message)

\* a pair whose messages differ only in a run of spaces is in mismatch of
\* both passes
C9_Witness ==
    /\ Finished
    /\ \E pair \in RevisionPairs \cap CommitPairs :
          /\ pair[1] \in Listed(mapping_revision_errors.mismatch)
          /\ pair[2] \in Listed(mapping_commit_errors.mismatch)
          /\ ~ DifferNormalized(pair)
          /\ Trimmed(BeforeMarker(GitEntryOf(pair[2]).message)) # <<CreateInitialStructure>>

\* C10: when migrate() has returned without a caught exception, it returned
\* True if and only if the six lists of the two passes are all empty.
C10_Verdict ==
    Finished =>
        (outcome.returned = {TRUE}
         <=> /\ mapping_revision_errors.missing = <<>>
             /\ mapping_revision_errors.mismatch = <<>>
             /\ mapping_revision_errors.file_mismatch = <<>>
             /\ mapping_commit_errors.missing = <<>>
             /\ mapping_commit_errors.mismatch = <<>>
             /\ mapping_commit_errors.file_mismatch = <<>>)

\* the only entries of the six lists are message mismatches, and migrate()
\* returned False
C10_Witness ==
    /\ Finished
    /\ outcome.returned = {FALSE}
    /\ mapping_revision_errors.missing = <<>>
    /\ mapping_revision_errors.file_mismatch = <<>>
    /\ mapping_commit_errors.missing = <<>>
    /\ mapping_commit_errors.file_mismatch = <<>>
    /\ mapping_commit_errors.mismatch # <<>>

\* C11: the process exits with status 0 if migrate() returned True and with
\* a status other than 0 in every other outcome.
C11_ExitStatus ==
    pc = "exited" => (outcome.exit = Some(0) <=> outcome.returned = Some(TRUE))

\* a step of a pass visits the first record not yet visited and stays in the
\* pass
VisitsOne == todo # <<>> /\ pc' = pc /\ todo' = Tail(todo)

\* a step taken in a pass: one more record, or the end of the pass
FailSoftStep ==
    pc \in {"verify_svn_git_mapping", "verify_git_svn_mapping"}
    => \/ VisitsOne
       \/ /\ todo = <<>>
          /\ pc = "verify_svn_git_mapping"
          /\ pc' = "verify_git_svn_mapping"
          /\ todo' = git_commits
          /\ mapping_revision_errors' = mapping_revision_errors
       \/ /\ todo = <<>>
          /\ pc = "verify_git_svn_mapping"
          /\ pc' = "done"
          /\ outcome'.raised = ""
          /\ mapping_commit_errors' = mapping_commit_errors

\* C12: in either pass every step visits one more record, whatever the
\* records before it were classified as, until none is left; the second pass
\* then starts on all the commits even if the first recorded discrepancies;
\* and a run that entered the first pass ends with both passes complete.
C12_FailSoft ==
    /\ [][FailSoftStep]_vars
    /\ (pc = "verify_svn_git_mapping")
          ~> (pc = "done" /\ outcome.raised = "" /\ todo = <<>>)

\* the first pass recorded a missing revision and a message mismatch, and the
\* second pass went through all the commits and recorded a missing commit
C12_Witness ==
    /\ Finished
    /\ mapping_revision_errors.missing # <<>>
    /\ mapping_revision_errors.mismatch # <<>>
    /\ Len(git_commits) = MaxCommits
    /\ todo = <<>>
    /\ mapping_commit_errors.missing # <<>>
    /\ mapping_commit_errors.mismatch # <<>>

(***************************************************************************)
(* More claims about the CacheManager (specification Spec).                *)
(***************************************************************************)
\* the result a cached_run had in hand: what the execution answered, or what
\* the cache served
ResultInHand(c) == IF c.executed THEN c.ran ELSE c.result

\* C13: a cached_run with check=True whose result, executed or served from
\* the cache, has a return code other than 0 raises CalledProcessError
\* carrying the stderr of the result; a cached_run without check raises
\* nothing and returns the result as it is.
C13_StrictMode ==
    (call.op = "cached_run" /\ ResultInHand(call) # None)
    => /\ (call.check /\ The(ResultInHand(call)).returncode # 0)
             => /\ call.raised = "CalledProcessError"
                /\ call.stderr = Some(The(ResultInHand(call)).stderr)
       /\ ~ call.check
             => /\ call.raised = ""
                /\ call.result = ResultInHand(call)

\* C14: over a whole behaviour, restarts included, _get_cache_key returns at
\* most one key for a command.
C14_KeyDeterminism ==
    \A c \in Cmds : Cardinality(ledger.keys[c]) <= 1

\* C15: no key is returned for two commands; a result served from the cache
\* was not written by the execution of another command; and a cached_run
\* leaves the index entries of the other commands as they were.
C15_KeyUniqueness ==
    /\ \A c1, c2 \in Cmds : c1 # c2 => ledger.keys[c1] \cap ledger.keys[c2] = {}
    /\ call.op = "cached_run"
          => /\ call.producer \subseteq {call.cmd}
             /\ ~ call.replaced

\* C16: right after cleanup() the cache directory holds no result file, and
\* the next cached_run of a command whose cached result cleanup() removed
\* executes the command.
C16_CleanupForgets ==
    /\ call.op = "cleanup" => ResultFileKeys(disk) = {}
    /\ (call.op = "cached_run" /\ call.cleaned) => call.executed

(***************************************************************************)
(* More claims about the migrator.                                         *)
(***************************************************************************)
\* C17: when the two passes have been run a second time on the same
\* svn_revisions and git_commits, whatever the cache directory and the
\* working copies were left as, each pass returns the lists it returned the
\* first time.
C17_Idempotent ==
    (pc = "done" /\ outcome.raised = "" /\ call.op = "passes")
    => /\ mapping_revision_errors = call.revision_errors
       /\ mapping_commit_errors = call.commit_errors

\* the second run returned lists that are not empty, on working copies other
\* than those the first run ended on
C17_Witness ==
    /\ pc = "done" /\ outcome.raised = "" /\ call.op = "passes"
    /\ mapping_revision_errors.missing # <<>>
    /\ mapping_revision_errors.mismatch # <<>>
    /\ mapping_commit_errors.missing # <<>>
    /\ mapping_commit_errors.mismatch # <<>>
    /\ wc = [svn |-> None, git |-> None]

\* the path made of the segments of parts from the i-th on
PathFrom(parts, i) == "/" \o JoinPath(SubSeq(parts, i, Len(parts)))

\* C18 as stated: the translation of an absolute path drops the segment
\* 'trunk' after the root; it drops the segment 'branches' or 'tags' after
\* the root and the segment that follows it; otherwise it drops only the
\* root segment.
C18_PathTranslation ==
    call.op = "strip_branch_info"
    => call.result =
          Some(IF call.parts[2] = "trunk" THEN PathFrom(call.parts, 3)
               ELSE IF call.parts[2] \in {"branches", "tags"} THEN PathFrom(call.parts, 4)
               ELSE PathFrom(call.parts, 2))

\* C18 amended: 'branches' and 'tags' are dropped, with the segment that
\* follows, only when a segment follows; the paths /branches and /tags are
\* translated as any other path, to themselves.
C18_PathTranslationWithName ==
    call.op = "strip_branch_info"
    => call.result =
          Some(IF call.parts[2] = "trunk" THEN PathFrom(call.parts, 3)
               ELSE IF call.parts[2] \in {"branches", "tags"} /\ Len(call.parts) > 2
               THEN PathFrom(call.parts, 4)
               ELSE PathFrom(call.parts, 2))

\* /branches/rel1/src/a.txt was translated to /src/a.txt
C18_Witness ==
    /\ call.op = "strip_branch_info"
    /\ call.parts = <<"", "branches", "rel1", "src", "a.txt">>
    /\ call.result = Some("/src/a.txt")

\* A step in which a query made with check=True answered a return code
\* other than 0: the revision-count query (its answer is then the stored
\* result of the command), or the checkout or the clone that was to make a
\* working copy (there is still none).
StrictQueryFailed ==
    \/ /\ pc = "get_svn_revisions"
       /\ StoredResult(cache_keys', disk', last_rev_cmd) # None
       /\ The(StoredResult(cache_keys', disk', last_rev_cmd)).returncode # 0
    \/ pc = "clone_svn" /\ wc.svn = None /\ wc'.svn = None
    \/ pc = "clone_git" /\ wc.git = None /\ wc'.git = None
\* what the passes have done so far
Reconciled == <<todo, mapping_revision_errors, mapping_commit_errors>>
\* the step ends migrate() with False and no record was visited in it
AbortsRun ==
    /\ pc' = "done"
    /\ outcome'.returned = Some(FALSE)
    /\ outcome'.raised = "CalledProcessError"
    /\ Reconciled' = Reconciled
\* once migrate() has returned no record is visited and the verdict stays
AfterReturn ==
    pc \in {"done", "exited"}
    => /\ pc' = "exited"
       /\ Reconciled' = Reconciled
       /\ outcome'.returned = outcome.returned

\* C19: the step in which a query made with check=True answers a return code
\* other than 0 ends migrate() with False, and nothing is reconciled or
\* verified in that step or after it.
C19_FatalAborts ==
    /\ [][StrictQueryFailed => AbortsRun]_vars
    /\ [][AfterReturn]_vars

\* the histories were extracted, the checkout that makes the svn working
\* copy failed, and migrate() returned False with nothing reconciled
C19_Witness ==
    /\ pc = "done"
    /\ outcome.raised = "CalledProcessError"
    /\ outcome.returned = Some(FALSE)
    /\ svn_revisions # <<>>
    /\ wc.svn = None
    /\ git_commits = <<>>
    /\ mapping_revision_errors = NoErrors
    /\ mapping_commit_errors = NoErrors

\* migrate() is in one of its two passes
InPass == pc \in {"verify_svn_git_mapping", "verify_git_svn_mapping"}
\* migrate() is still extracting
Extracting == pc \in {"get_svn_revisions", "svn_log", "clone_svn", "clone_git",
                      "get_git_commits"}
\* no record has been looked up
NothingReconciled ==
    /\ todo = <<>>
    /\ mapping_revision_errors = NoErrors
    /\ mapping_commit_errors = NoErrors
\* the step merged every revision the query of the next batch answered
BatchMerged ==
    LET answer == StoredResult(cache_keys', disk', LogCmd(Head(range_list)[1],
                                                         Head(range_list)[2]))
    IN /\ answer # None
       /\ \A i \in DOMAIN The(answer).stdout.entries :
             \E j \in DOMAIN svn_revisions' :
                svn_revisions'[j].revision = The(answer).stdout.entries[i].revision
       /\ \A j \in DOMAIN svn_revisions : \E k \in DOMAIN svn_revisions' :
             svn_revisions'[k].revision = svn_revisions[j].revision
\* the step loaded every commit the git log query answered
CommitsLoaded ==
    LET answer == StoredResult(cache_keys', disk', GitLogCmd)
    IN /\ answer # None
       /\ The(answer).stdout.kind = "gitxml" =>
             /\ \A i \in DOMAIN The(answer).stdout.entries :
                   \E j \in DOMAIN git_commits' :
                      git_commits'[j].commit_hash = The(answer).stdout.entries[i].hash
             /\ \A j \in DOMAIN git_commits' :
                   \E i \in DOMAIN The(answer).stdout.entries :
                      git_commits'[j].commit_hash = The(answer).stdout.entries[i].hash
\* the order of the steps of one run
ExtractionFirst ==
    /\ (pc = "svn_log" /\ pc' \notin {"svn_log", "done"}) => Len(range_list) = 1
    /\ (pc = "svn_log" /\ pc' # "done") =>
          BatchMerged /\ range_list' = Tail(range_list)
    /\ (~ InPass /\ InPass') =>
          /\ pc = "get_git_commits"
          /\ range_list = <<>>
          /\ CommitsLoaded
          /\ svn_revisions' = svn_revisions
    /\ InPass => <<svn_revisions, git_commits, range_list>>' =
                  <<svn_revisions, git_commits, range_list>>

\* C20: while migrate() is extracting no record has been looked up; a pass
\* begins only after every batch of revisions get_svn_revisions planned was
\* queried and merged and every commit of the git log was loaded; during the
\* passes no batch is outstanding and neither history changes.
C20_PipelineOrdering ==
    /\ [](Extracting => NothingReconciled)
    /\ [](InPass => range_list = <<>>)
    /\ [][ExtractionFirst]_vars

\* the second pass is running on a history of more than one batch, a
\* revision has been looked up and found missing, and a commit is still to
\* be looked up
C20_Witness ==
    /\ pc = "verify_git_svn_mapping"
    /\ Len(svn_revisions) > batch_size
    /\ mapping_revision_errors.missing # <<>>
    /\ git_commits # <<>>
    /\ todo = git_commits

\* the positions in self.git_commits of the commits that carry the revision
CommitsCarrying(rev) == {i \in DOMAIN git_commits : git_commits[i].revision = Some(rev)}
\* the first of them in the order of self.git_commits
FirstCarrying(rev) ==
    git_commits[CHOOSE i \in CommitsCarrying(rev) : \A j \in CommitsCarrying(rev) : i <= j]
\* the revision the first pass visits next is carried by several commits
VisitsDuplicate ==
    /\ pc = "verify_svn_git_mapping"
    /\ todo # <<>>
    /\ Cardinality(CommitsCarrying(Head(todo).revision)) > 1
\* the visit compared the revision with the first commit carrying it
PairedWithFirst ==
    LET revision == Head(todo)
        c == FirstCarrying(revision.revision)
    IN /\ pc' = pc
       /\ outcome' = outcome
       /\ todo' = Tail(todo)
       /\ mapping_revision_errors'.missing = mapping_revision_errors.missing
       /\ mapping_revision_errors'.mismatch =
             IF c.message # revision.message
             THEN Append(mapping_revision_errors.mismatch,
                         <<revision.revision, revision.message, c.message>>)
             ELSE mapping_revision_errors.mismatch
DuplicateStep == VisitsDuplicate => PairedWithFirst

\* C21: a revision that several commits of self.git_commits carry is
\* compared with the first of them in the order of self.git_commits, is not
\* recorded as missing, and the pass goes on.
C21_DuplicateLinks == [][DuplicateStep]_vars

\* revision 1 is carried by two commits, the first with another message and
\* the second with the message of the revision; the first pass recorded the
\* mismatch with the first commit and no missing revision
C21_Witness ==
    /\ pc = "verify_svn_git_mapping"
    /\ Len(git_commits) >= 2
    /\ git_commits[1].revision = Some("1")
    /\ git_commits[2].revision = Some("1")
    /\ svn_revisions # <<>>
    /\ svn_revisions[1].revision = "1"
    /\ git_commits[1].message # svn_revisions[1].message
    /\ git_commits[2].message = svn_revisions[1].message
    /\ mapping_revision_errors.missing = <<>>
    /\ mapping_revision_errors.mismatch =
          <<<<"1", svn_revisions[1].message, git_commits[1].message>>>>

\* a changed path the file verifier is for
Verifiable(p) == p.kind = "file" /\ p.action \in {"A", "M"}
\* the first pass visits a revision that has a commit
VisitsMatched ==
    /\ pc = "verify_svn_git_mapping"
    /\ todo # <<>>
    /\ CommitsCarrying(Head(todo).revision) # {}
\* _verify_single_file ran for the revision: its first tool call, the
\* checkout at the revision, either moved the svn working copy or failed
VerifierInvoked(revision) ==
    \/ wc'.svn = Some(revision.revision)
    \/ pc' = "done" /\ outcome'.raised = "CalledProcessError"
VerifiedStep ==
    VisitsMatched =>
        IF \E i \in DOMAIN Head(todo).changed_paths : Verifiable(Head(todo).changed_paths[i])
        THEN VerifierInvoked(Head(todo))
        ELSE /\ wc' = wc
             /\ mapping_revision_errors'.file_mismatch = mapping_revision_errors.file_mismatch

CorruptFor(cmd) ==
    /\ is_cacheable_cmd(cmd)
    /\ StoredResult(cache_keys, disk, cmd) = Some(Undecodable)
\* the step is a cached_run of a command in that case, and it executed the
\* command, stored and returned what the tool answered, and raised nothing
\* but the CalledProcessError of a checked call
CorruptIsMissStep ==
    (ncalls' # ncalls /\ call'.op = "cached_run" /\ CorruptFor(call'.cmd)) =>
        /\ call'.executed
        /\ call'.result = call'.ran
        /\ StoredResult(cache_keys', disk', call'.cmd) = call'.ran
        /\ call'.raised \in {"", "CalledProcessError"}

\* C23: a cached_run of a command whose stored result file cannot be
\* deserialized executes the command, overwrites the file with the fresh
\* result and returns it.
C23_CorruptionIsMiss == [][CorruptIsMissStep]_vars

(***************************************************************************)
(* Claims about the batches and the lists                                  *)
(***************************************************************************)
\* the windows are pairwise disjoint, at most batch_size wide, and cover 1..n
WindowsCover(windows, n) ==
    /\ \A i \in DOMAIN windows :
          /\ windows[i][1] <= windows[i][2]
          /\ windows[i][2] - windows[i][1] + 1 <= batch_size
    /\ \A i, j \in DOMAIN windows :
          i < j => windows[i][2] < windows[j][1]
    /\ \A r \in 1..n : \E i \in DOMAIN windows :
          windows[i][1] <= r /\ r <= windows[i][2]
\* get_svn_revisions has planned its windows for the last revision the
\* provider reported
PlannedStep ==
    (pc = "get_svn_revisions" /\ pc' \in {"svn_log", "clone_svn"}) =>
        WindowsCover(range_list', world.lastRev)
\* get_svn_revisions has returned and the accumulator holds every revision
AllMerged ==
    pc \in {"clone_svn", "clone_git", "get_git_commits"} =>
        \A r \in 1..world.lastRev :
            \E i \in DOMAIN svn_revisions : svn_revisions[i].revision = ToString(r)

\* C24: for the last revision N the provider reported, the windows
\* get_svn_revisions plans are pairwise disjoint, at most 100 wide and cover
\* 1..N, and when it returns every revision 1..N is in the accumulator.
C24_BatchCoverage == [][PlannedStep]_vars /\ []AllMerged

\* the units (revision numbers or commit hashes) a list records
UnitsOf(list) == {list[i][1] : i \in DOMAIN list}
OncePerList(list) == \A i, j \in DOMAIN list : i # j => list[i][1] # list[j][1]
\* the lists of one pass: a missing unit is in no other list, and no list
\* has a unit twice
Classified(errors) ==
    /\ UnitsOf(errors.missing) \cap UnitsOf(errors.mismatch) = {}
    /\ UnitsOf(errors.missing) \cap UnitsOf(errors.file_mismatch) = {}
    /\ OncePerList(errors.missing)
    /\ OncePerList(errors.mismatch)
    /\ OncePerList(errors.file_mismatch)
ClassifiedLists == Classified(mapping_revision_errors) /\ Classified(mapping_commit_errors)
\* the visit of a revision whose commit has another message records the
\* mismatch and then verifies the files of the pair
MismatchThenFiles ==
    (/\ VisitsMatched
     /\ FirstCarrying(Head(todo).revision).message # Head(todo).message
     /\ \E i \in DOMAIN Head(todo).changed_paths : Verifiable(Head(todo).changed_paths[i]))
    => /\ VerifierInvoked(Head(todo))
       /\ pc' = pc =>
             mapping_revision_errors'.mismatch =
                Append(mapping_revision_errors.mismatch,
                       <<Head(todo).revision, Head(todo).message,
                         FirstCarrying(Head(todo).revision).message>>)

\* C25: in the lists of one pass a unit recorded as missing is in neither
\* other list and no unit is twice in a list; and a matched pair whose
\* messages differ is recorded in mismatch and its files are verified all
\* the same.
C25_Classification == []ClassifiedLists /\ [][MismatchThenFiles]_vars

====
